---------------------------- MODULE Spec2Model ----------------------------
(***************************************************************************)
(* Series Points API (src/app.py): a relational store of users, series,    *)
(* teams, members, rounds, team points and player performances behind      *)
(* nine request handlers.  Every table is a sequence of rows; a row's id   *)
(* is its index (integer primary keys, rows are only ever inserted).       *)
(***************************************************************************)
EXTENDS Integers, Sequences, FiniteSets, TLC

VARIABLES users, series, teams, members, rounds, team_points,
          player_performance, last, pending

store == <<users, series, teams, members, rounds, team_points, player_performance>>
vars == <<users, series, teams, members, rounds, team_points, player_performance,
          last, pending>>

(* ------------------------------ bounds -------------------------------- *)
\* rows inserted after the seed in the full specification
MaxRows == 3
\* length of the users table in the two create-user specifications
MaxUsers == 7
\* concurrent callers of create_user
NumCallers == 2
\* rows of the series table in the create-series specification
MaxSeries == 2
\* fact rows recorded in the standings specification
MaxTeamPoints == 3

(* ------------------------- program constants -------------------------- *)
MaxScorers == 6
MaxSpanDays == 92
\* x_user_id when the header is absent (None)
NoHeader == 0

Roles == {"scorer", "captain", "player"}
\* a role string the UserIn pattern rejects
RoleInputs == Roles \cup {"admin"}
None == [null |-> TRUE]
NoRequest == [op |-> "none", req |-> None, status |-> 0, body |-> None]
Idle == [pc |-> "idle"]

(* ------------------------------ helpers ------------------------------- *)
Ids(table) == 1..Len(table)

RECURSIVE SumOver(_, _)
SumOver(f, S) ==
    IF S = {} THEN 0
    ELSE LET i == CHOOSE j \in S : TRUE IN f[i] + SumOver(f, S \ {i})

\* all orderings of the set S as sequences
Orderings(S) ==
    {p \in [1..Cardinality(S) -> S] : \A i, j \in 1..Cardinality(S) : i # j => p[i] # p[j]}

Detail(msg) == [detail |-> msg]

\* get_actor: the user row x_user_id names, or None
ActorFound(x_user_id) == x_user_id # NoHeader /\ x_user_id \in Ids(users)

\* require_updater: the actor may update data
\* (faulty variant: the role is not looked at)
IsUpdaterAnyone(actor) == TRUE
IsUpdater(actor) == actor.role = "scorer"

\* UserIn: the role pattern of the request body
RoleMatchesPattern(role) == role \in Roles

\* What precedes the handler's own checks: the actor dependency (401), the
\* request body's validation (422), then require_updater (403); 200 when the
\* handler goes on.
Admit(x_user_id, bodyValid) ==
    IF ~ActorFound(x_user_id) THEN 401
    ELSE IF ~bodyValid THEN 422
    ELSE IF ~IsUpdater(users[x_user_id]) THEN 403
    ELSE 200

AdmitDetail(st) ==
    CASE st = 401 -> Detail("invalid x-user-id")
      [] st = 422 -> Detail("validation error")
      [] st = 403 -> Detail("only scorer users can update data")
      [] OTHER -> None

ScorerCount == Cardinality({i \in Ids(users) : users[i].role = "scorer"})

\* create_user: "max 6 scorer users allowed"
\* (faulty variant: > in place of >=)
ScorerCapReachedOffByOne(role) == role = "scorer" /\ ScorerCount > MaxScorers
ScorerCapReached(role) == role = "scorer" /\ ScorerCount >= MaxScorers

CreateUserStatus(x_user_id, role) ==
    LET st == Admit(x_user_id, RoleMatchesPattern(role)) IN
    IF st # 200 THEN st
    ELSE IF ScorerCapReached(role) THEN 400
    ELSE 200

CreateUserFailure(st) ==
    IF st = 400 THEN Detail("max 6 scorer users allowed") ELSE AdmitDetail(st)

(* ------------------------------ startup ------------------------------- *)
\* ensure_default_scorer on an empty store
Init ==
    /\ users = <<[name |-> "Default Scorer", role |-> "scorer"]>>
    /\ series = <<>>
    /\ teams = <<>>
    /\ members = <<>>
    /\ rounds = <<>>
    /\ team_points = <<>>
    /\ player_performance = <<>>
    /\ last = NoRequest
    /\ pending = [c \in 1..NumCallers |-> Idle]

(* ------------------------------ handlers ------------------------------ *)
\* POST /users
CreateUser(x_user_id, name, role) ==
    LET req == [x_user_id |-> x_user_id, name |-> name, role |-> role]
        st == CreateUserStatus(x_user_id, role)
    IN /\ users' = IF st = 200 THEN Append(users, [name |-> name, role |-> role]) ELSE users
       /\ last' = [op |-> "create_user", req |-> req, status |-> st,
                   body |-> IF st = 200
                            THEN [id |-> Len(users) + 1, name |-> name, role |-> role]
                            ELSE CreateUserFailure(st)]
       /\ UNCHANGED <<series, teams, members, rounds, team_points, player_performance, pending>>

\* create_series: the two date checks
\* (faulty variant: the order check is missing)
SeriesDatesStatusNoOrder(start_date, end_date) ==
    IF end_date - start_date > MaxSpanDays THEN 400 ELSE 200
SeriesDatesStatus(start_date, end_date) ==
    IF end_date < start_date THEN 400
    ELSE IF end_date - start_date > MaxSpanDays THEN 400
    ELSE 200

SeriesDatesDetail(start_date, end_date) ==
    IF end_date < start_date THEN Detail("end_date must be >= start_date")
    ELSE Detail("series period cannot exceed 3 months")

\* POST /series; dates are day numbers
CreateSeries(x_user_id, name, start_date, end_date) ==
    LET req == [x_user_id |-> x_user_id, name |-> name,
                start_date |-> start_date, end_date |-> end_date]
        adm == Admit(x_user_id, TRUE)
        st == IF adm # 200 THEN adm ELSE SeriesDatesStatus(start_date, end_date)
    IN /\ series' = IF st = 200
                    THEN Append(series, [name |-> name, start_date |-> start_date,
                                         end_date |-> end_date])
                    ELSE series
       /\ last' = [op |-> "create_series", req |-> req, status |-> st,
                   body |-> IF st = 200 THEN [id |-> Len(series) + 1, name |-> name]
                            ELSE IF adm # 200 THEN AdmitDetail(adm)
                            ELSE SeriesDatesDetail(start_date, end_date)]
       /\ UNCHANGED <<users, teams, members, rounds, team_points, player_performance, pending>>

\* create_team: captain_id must be a valid captain
\* (faulty variant: any existing user will do)
ValidCaptainAnyUser(captain_id) == captain_id \in Ids(users)
ValidCaptain(captain_id) ==
    captain_id \in Ids(users) /\ users[captain_id].role = "captain"

\* POST /teams
CreateTeam(x_user_id, name, captain_id) ==
    LET req == [x_user_id |-> x_user_id, name |-> name, captain_id |-> captain_id]
        adm == Admit(x_user_id, TRUE)
        st == IF adm # 200 THEN adm ELSE IF ~ValidCaptain(captain_id) THEN 400 ELSE 200
    IN /\ teams' = IF st = 200
                   THEN Append(teams, [name |-> name, captain_id |-> captain_id])
                   ELSE teams
       /\ last' = [op |-> "create_team", req |-> req, status |-> st,
                   body |-> IF st = 200 THEN [id |-> Len(teams) + 1, name |-> name]
                            ELSE IF adm # 200 THEN AdmitDetail(adm)
                            ELSE Detail("captain_id must be a valid captain")]
       /\ UNCHANGED <<users, series, members, rounds, team_points, player_performance, pending>>

\* add_member: the user check, then the team check
\* (faulty variant: the team is never looked up)
AddMemberStatusNoTeam(user_id, team_id) ==
    IF ~(user_id \in Ids(users) /\ users[user_id].role \in {"captain", "player"}) THEN 400
    ELSE 200
AddMemberStatus(user_id, team_id) ==
    IF ~(user_id \in Ids(users) /\ users[user_id].role \in {"captain", "player"}) THEN 400
    ELSE IF team_id \notin Ids(teams) THEN 404
    ELSE 200

\* POST /members
AddMember(x_user_id, user_id, team_id) ==
    LET req == [x_user_id |-> x_user_id, user_id |-> user_id, team_id |-> team_id]
        adm == Admit(x_user_id, TRUE)
        st == IF adm # 200 THEN adm ELSE AddMemberStatus(user_id, team_id)
    IN /\ members' = IF st = 200
                     THEN Append(members, [user_id |-> user_id, team_id |-> team_id])
                     ELSE members
       /\ last' = [op |-> "add_member", req |-> req, status |-> st,
                   body |-> IF st = 200 THEN [id |-> Len(members) + 1]
                            ELSE IF adm # 200 THEN AdmitDetail(adm)
                            ELSE IF st = 400 THEN Detail("user must be captain or player")
                            ELSE Detail("team not found")]
       /\ UNCHANGED <<users, series, teams, rounds, team_points, player_performance, pending>>

\* POST /rounds
CreateRound(x_user_id, series_id, name) ==
    LET req == [x_user_id |-> x_user_id, series_id |-> series_id, name |-> name]
        adm == Admit(x_user_id, TRUE)
        st == IF adm # 200 THEN adm ELSE IF series_id \notin Ids(series) THEN 404 ELSE 200
    IN /\ rounds' = IF st = 200
                    THEN Append(rounds, [series_id |-> series_id, name |-> name])
                    ELSE rounds
       /\ last' = [op |-> "create_round", req |-> req, status |-> st,
                   body |-> IF st = 200 THEN [id |-> Len(rounds) + 1, name |-> name]
                            ELSE IF adm # 200 THEN AdmitDetail(adm)
                            ELSE Detail("series not found")]
       /\ UNCHANGED <<users, series, teams, members, team_points, player_performance, pending>>

\* POST /team-points: a new fact row, no existence check
\* (faulty variant: a row of the same round and team is overwritten)
UpdateTeamPointsUpsert(x_user_id, round_id, team_id, points) ==
    LET req == [x_user_id |-> x_user_id, round_id |-> round_id, team_id |-> team_id,
                points |-> points]
        st == Admit(x_user_id, TRUE)
        row == [round_id |-> round_id, team_id |-> team_id, points |-> points]
        same == {i \in Ids(team_points) :
                    team_points[i].round_id = round_id /\ team_points[i].team_id = team_id}
    IN /\ team_points' = IF st # 200 THEN team_points
                         ELSE IF same = {} THEN Append(team_points, row)
                         ELSE [team_points EXCEPT ![CHOOSE i \in same : TRUE] = row]
       /\ last' = [op |-> "update_team_points", req |-> req, status |-> st,
                   body |-> IF st = 200 THEN [status |-> "ok"] ELSE AdmitDetail(st)]
       /\ UNCHANGED <<users, series, teams, members, rounds, player_performance, pending>>
UpdateTeamPoints(x_user_id, round_id, team_id, points) ==
    LET req == [x_user_id |-> x_user_id, round_id |-> round_id, team_id |-> team_id,
                points |-> points]
        st == Admit(x_user_id, TRUE)
    IN /\ team_points' = IF st = 200
                         THEN Append(team_points, [round_id |-> round_id, team_id |-> team_id,
                                                   points |-> points])
                         ELSE team_points
       /\ last' = [op |-> "update_team_points", req |-> req, status |-> st,
                   body |-> IF st = 200 THEN [status |-> "ok"] ELSE AdmitDetail(st)]
       /\ UNCHANGED <<users, series, teams, members, rounds, player_performance, pending>>

\* POST /player-performance: a new fact row, no existence check; the flag is
\* stored as 1 or 0
UpdatePlayerPerformance(x_user_id, round_id, player_id, performance_points, is_man_of_match) ==
    LET req == [x_user_id |-> x_user_id, round_id |-> round_id, player_id |-> player_id,
                performance_points |-> performance_points,
                is_man_of_match |-> is_man_of_match]
        st == Admit(x_user_id, TRUE)
    IN /\ player_performance' =
            IF st = 200
            THEN Append(player_performance,
                        [round_id |-> round_id, player_id |-> player_id,
                         performance_points |-> performance_points,
                         is_man_of_match |-> IF is_man_of_match THEN 1 ELSE 0])
            ELSE player_performance
       /\ last' = [op |-> "update_player_performance", req |-> req, status |-> st,
                   body |-> IF st = 200 THEN [status |-> "ok"] ELSE AdmitDetail(st)]
       /\ UNCHANGED <<users, series, teams, members, rounds, team_points, pending>>

(* ------------------------------- reads -------------------------------- *)
\* the performance rows of a round
RoundPerformances(round_id) ==
    {i \in Ids(player_performance) : player_performance[i].round_id = round_id}

\* ORDER BY is_man_of_match DESC, performance_points DESC: a is not after b
NotAfter(a, b) ==
    \/ a.is_man_of_match > b.is_man_of_match
    \/ /\ a.is_man_of_match = b.is_man_of_match
       /\ a.performance_points >= b.performance_points

\* the rows .first() may return: those no other row of the round precedes
FirstRows(round_id) ==
    {i \in RoundPerformances(round_id) :
        \A j \in RoundPerformances(round_id) :
            NotAfter(player_performance[i], player_performance[j])}

\* GET /rounds/{round_id}/man-of-match.  The handler does not call
\* require_updater.  player = db.get(User, winner.player_id) is None for a
\* player_id no user has, and player.id then raises: the request ends 500.
ManOfMatch(x_user_id, round_id) ==
    LET req == [x_user_id |-> x_user_id, round_id |-> round_id]
        op == "man_of_match"
    IN /\ \/ /\ ~ActorFound(x_user_id)
             /\ last' = [op |-> op, req |-> req, status |-> 401, body |-> AdmitDetail(401)]
          \/ /\ ActorFound(x_user_id)
             /\ RoundPerformances(round_id) = {}
             /\ last' = [op |-> op, req |-> req, status |-> 404,
                         body |-> Detail("no performance data")]
          \/ /\ ActorFound(x_user_id)
             /\ \E w \in FirstRows(round_id) :
                  LET player_id == player_performance[w].player_id IN
                  last' = IF player_id \in Ids(users)
                          THEN [op |-> op, req |-> req, status |-> 200,
                                body |-> [round_id |-> round_id, player_id |-> player_id,
                                          player_name |-> users[player_id].name]]
                          ELSE [op |-> op, req |-> req, status |-> 500,
                                body |-> Detail("Internal Server Error")]
       /\ UNCHANGED <<users, series, teams, members, rounds, team_points,
                      player_performance, pending>>

\* the rounds subquery of series_results
SeriesRounds(series_id) == {r \in Ids(rounds) : rounds[r].series_id = series_id}

\* the team-point rows joined to team t and filtered to the series' rounds
TeamRows(t, series_id) ==
    {i \in Ids(team_points) :
        team_points[i].team_id = t /\ team_points[i].round_id \in SeriesRounds(series_id)}

\* func.sum(TeamPoint.points) of the group of team t
\* (faulty variant: the latest row replaces the earlier ones)
TeamTotalLastRow(t, series_id) ==
    LET S == TeamRows(t, series_id)
    IN team_points[CHOOSE i \in S : \A j \in S : j <= i].points
TeamTotal(t, series_id) ==
    SumOver([i \in Ids(team_points) |-> team_points[i].points], TeamRows(t, series_id))

\* the groups of team_totals: one per team the join keeps
TeamGroups(series_id) ==
    {[team_id |-> t, team_name |-> teams[t].name, points |-> TeamTotal(t, series_id)] :
        t \in {u \in Ids(teams) : TeamRows(u, series_id) # {}}}

PlayerRows(u, series_id) ==
    {i \in Ids(player_performance) :
        /\ player_performance[i].player_id = u
        /\ player_performance[i].round_id \in SeriesRounds(series_id)}

PlayerTotal(u, series_id) ==
    SumOver([i \in Ids(player_performance) |-> player_performance[i].performance_points],
            PlayerRows(u, series_id))

PlayerGroups(series_id) ==
    {[player_id |-> u, player_name |-> users[u].name, points |-> PlayerTotal(u, series_id)] :
        u \in {v \in Ids(users) : PlayerRows(v, series_id) # {}}}

\* ORDER BY sum DESC: every ordering of the groups with non-increasing
\* totals (the order among equal totals is the store's choice)
Ranked(groups) ==
    {p \in Orderings(groups) : \A i, j \in 1..Len(p) : i < j => p[i].points >= p[j].points}

Top(ranking) == IF Len(ranking) = 0 THEN None ELSE ranking[1]

\* GET /series/{series_id}/standings.  The handler does not call
\* require_updater.
SeriesResults(x_user_id, series_id) ==
    LET req == [x_user_id |-> x_user_id, series_id |-> series_id]
        op == "series_results"
    IN /\ \/ /\ ~ActorFound(x_user_id)
             /\ last' = [op |-> op, req |-> req, status |-> 401, body |-> AdmitDetail(401)]
          \/ /\ ActorFound(x_user_id)
             /\ series_id \notin Ids(series)
             /\ last' = [op |-> op, req |-> req, status |-> 404,
                         body |-> Detail("series not found")]
          \/ /\ ActorFound(x_user_id)
             /\ series_id \in Ids(series)
             /\ \E team_totals \in Ranked(TeamGroups(series_id)) :
                \E player_totals \in Ranked(PlayerGroups(series_id)) :
                  last' = [op |-> op, req |-> req, status |-> 200,
                           body |-> [series_id |-> series_id,
                                     winner_team |-> Top(team_totals),
                                     man_of_the_series |-> Top(player_totals),
                                     team_table |-> team_totals]]
       /\ UNCHANGED <<users, series, teams, members, rounds, team_points,
                      player_performance, pending>>

(* ------------------------ full specification -------------------------- *)
Names == {"n"}
ActorInputs == 0..(Len(users) + 1)
PointInputs == {1, 2}
\* inserted rows, the seed not counted
StoreRows ==
    Len(users) + Len(series) + Len(teams) + Len(members) + Len(rounds)
        + Len(team_points) + Len(player_performance) - 1

\* a mutating request is taken while fewer than MaxRows rows were inserted
Open == StoreRows < MaxRows

Next ==
    \/ \E x \in ActorInputs, n \in Names, role \in RoleInputs :
          Open /\ CreateUser(x, n, role)
    \/ \E x \in ActorInputs, n \in Names, d \in {-1, 0, MaxSpanDays, MaxSpanDays + 1} :
          Open /\ CreateSeries(x, n, 1, 1 + d)
    \/ \E x \in ActorInputs, n \in Names, c \in 1..(Len(users) + 1) :
          Open /\ CreateTeam(x, n, c)
    \/ \E x \in ActorInputs, u \in 1..(Len(users) + 1), t \in 1..(Len(teams) + 1) :
          Open /\ AddMember(x, u, t)
    \/ \E x \in ActorInputs, n \in Names, s \in 1..(Len(series) + 1) :
          Open /\ CreateRound(x, s, n)
    \/ \E x \in ActorInputs, r \in 1..(Len(rounds) + 1), t \in 1..(Len(teams) + 1),
          p \in PointInputs :
          Open /\ UpdateTeamPoints(x, r, t, p)
    \/ \E x \in ActorInputs, r \in 1..(Len(rounds) + 1), u \in 1..(Len(users) + 1),
          p \in PointInputs, m \in BOOLEAN :
          Open /\ UpdatePlayerPerformance(x, r, u, p, m)
    \/ \E x \in ActorInputs, r \in 1..(Len(rounds) + 1) : ManOfMatch(x, r)
    \/ \E x \in ActorInputs, s \in 1..(Len(series) + 1) : SeriesResults(x, s)

Spec == Init /\ [][Next]_vars

(* -------------------- create-user specification ------------------------ *)
\* Only POST /users, one request at a time, until the table holds MaxUsers rows.
NextUsers ==
    /\ Len(users) < MaxUsers
    /\ \E x \in ActorInputs, n \in Names, role \in RoleInputs : CreateUser(x, n, role)

SpecUsers == Init /\ [][NextUsers]_vars

(* --------------- create-user with concurrent callers ------------------- *)
\* Handlers run on a thread pool, each with its own session.  The count query
\* (line 160) and the insert with its commit (lines 163-165) are separate
\* statements of create_user: another caller's statements may run in between.
Callers == 1..NumCallers

\* create_user up to the count check: the dependencies, require_updater and
\* the scorer count, read from the store as it is now
CreateUserCheck(c, x_user_id, name, role) ==
    LET req == [x_user_id |-> x_user_id, name |-> name, role |-> role]
        st == CreateUserStatus(x_user_id, role)
    IN /\ pending[c].pc = "idle"
       /\ IF st = 200
          THEN /\ pending' = [pending EXCEPT ![c] = [pc |-> "insert", req |-> req]]
               /\ UNCHANGED last
          ELSE /\ last' = [op |-> "create_user", req |-> req, status |-> st,
                           body |-> CreateUserFailure(st)]
               /\ UNCHANGED pending
       /\ UNCHANGED store

\* create_user from db.add to the response: the insert the check allowed
CreateUserInsert(c) ==
    /\ pending[c].pc = "insert"
    /\ LET req == pending[c].req IN
       /\ users' = Append(users, [name |-> req.name, role |-> req.role])
       /\ last' = [op |-> "create_user", req |-> req, status |-> 200,
                   body |-> [id |-> Len(users) + 1, name |-> req.name, role |-> req.role]]
    /\ pending' = [pending EXCEPT ![c] = Idle]
    /\ UNCHANGED <<series, teams, members, rounds, team_points, player_performance>>

NextConc ==
    \/ \E c \in Callers, x \in ActorInputs, n \in Names, role \in RoleInputs :
          Len(users) < MaxUsers /\ CreateUserCheck(c, x, n, role)
    \/ \E c \in Callers : CreateUserInsert(c)

SpecConc == Init /\ [][NextConc]_vars

(* -------------------- create-series specification ---------------------- *)
StartDates == {1, 2}
SpanInputs == {-2, -1, 0, 1, MaxSpanDays - 1, MaxSpanDays, MaxSpanDays + 1, MaxSpanDays + 2}

\* Only POST /series, until the table holds MaxSeries rows.
NextSeries ==
    /\ Len(series) < MaxSeries
    /\ \E x \in ActorInputs, n \in Names, s \in StartDates, d \in SpanInputs :
          CreateSeries(x, n, s, s + d)

SpecSeries == Init /\ [][NextSeries]_vars

(* ---------------------- standings specification ------------------------ *)
\* The default scorer builds a league (a captain, two series, teams X and Y,
\* two rounds in series 1 and one in series 2), then records team points for
\* any round and team id, existing or not, and reads the standings.
TeamNames == <<"X", "Y">>
LeagueSeries == <<"S1", "S2">>
LeagueRounds == <<1, 1, 2>>
StandingPoints == {5, 10}

LeagueBuilt ==
    /\ Len(users) = 2
    /\ Len(series) = Len(LeagueSeries)
    /\ Len(teams) = Len(TeamNames)
    /\ Len(rounds) = Len(LeagueRounds)

BuildLeague ==
    \/ Len(users) < 2 /\ CreateUser(1, "Cap", "captain")
    \/ Len(series) < Len(LeagueSeries) /\ CreateSeries(1, LeagueSeries[Len(series) + 1], 1, 1)
    \/ Len(users) = 2 /\ Len(teams) < Len(TeamNames)
          /\ CreateTeam(1, TeamNames[Len(teams) + 1], 2)
    \/ Len(series) = Len(LeagueSeries) /\ Len(rounds) < Len(LeagueRounds)
          /\ CreateRound(1, LeagueRounds[Len(rounds) + 1], "n")

NextStandings ==
    \/ BuildLeague
    \/ /\ LeagueBuilt
       /\ Len(team_points) < MaxTeamPoints
       /\ \E r \in 1..(Len(rounds) + 1), t \in 1..(Len(teams) + 1), p \in StandingPoints :
             UpdateTeamPoints(1, r, t, p)
    \/ /\ LeagueBuilt
       /\ \E s \in 1..(Len(series) + 1) : SeriesResults(1, s)

SpecStandings == Init /\ [][NextStandings]_vars

(* ============================ properties ============================== *)
MutatingOps ==
    {"create_user", "create_series", "create_team", "add_member", "create_round",
     "update_team_points", "update_player_performance"}
ReadOps == {"man_of_match", "series_results"}

\* the request just answered was made by an existing user of this role set
AnsweredFor(response, roleSet) ==
    /\ response.op \in MutatingOps \cup ReadOps
    /\ response.req.x_user_id \in Ids(users)
    /\ users[response.req.x_user_id].role \in roleSet

\* table `after` is table `before` with one row added at the end
OneRowAdded(before, after) ==
    Len(after) = Len(before) + 1 /\ SubSeq(after, 1, Len(before)) = before

NumScorers(us) == Cardinality({i \in DOMAIN us : us[i].role = "scorer"})

\* C1: in every reachable state, also when the count checks and inserts of
\* concurrent create-user callers interleave, at most 6 users are scorers.
C1_AtMostSixScorers == NumScorers(users) <= 6

\* C2: a scorer's create-user request for role scorer succeeds (adding that
\* user) when fewer than 6 scorers exist and fails with 400, adding nobody,
\* when 6 exist; a request for role captain or player is never refused by
\* the cap.
C2_ScorerCap ==
    [][(AnsweredFor(last', {"scorer"}) /\ last'.op = "create_user"
            /\ last'.req.role \in {"scorer", "captain", "player"})
        => LET role == last'.req.role
               added == users' = Append(users, [name |-> last'.req.name, role |-> role])
           IN IF role = "scorer" /\ NumScorers(users) >= 6
              THEN last'.status = 400 /\ users' = users
              ELSE last'.status = 200 /\ added]_vars

\* the seventh scorer was refused while six exist
C2_Witness ==
    /\ last.op = "create_user" /\ last.status = 400 /\ last.req.role = "scorer"
    /\ AnsweredFor(last, {"scorer"})
    /\ NumScorers(users) = 6

C4_OneWriteOrNone ==
    [][LET op == last'.op
           ok == last'.status = 200 /\ op \in MutatingOps
           Grows(name, before, after) ==
               IF ok /\ op \in name THEN OneRowAdded(before, after) ELSE after = before
       IN /\ Grows({"create_user"}, users, users')
          /\ Grows({"create_series"}, series, series')
          /\ Grows({"create_team"}, teams, teams')
          /\ Grows({"add_member"}, members, members')
          /\ Grows({"create_round"}, rounds, rounds')
          /\ Grows({"update_team_points"}, team_points, team_points')
          /\ Grows({"update_player_performance"}, player_performance, player_performance')]_vars

\* a second team-point row for the same round and team was recorded
C4_Witness ==
    /\ last.op = "update_team_points" /\ last.status = 200
    /\ Len(team_points) = 2
    /\ team_points[1].round_id = team_points[2].round_id
    /\ team_points[1].team_id = team_points[2].team_id

\* C5: a scorer's create-team request succeeds, adding the team, exactly when
\* captain_id is the id of an existing user whose role is captain; otherwise
\* it fails with 400 and adds no team.
C5_TeamNeedsCaptain ==
    [][(last'.op = "create_team" /\ AnsweredFor(last', {"scorer"}))
        => LET c == last'.req.captain_id IN
           IF c \in Ids(users) /\ users[c].role = "captain"
           THEN /\ last'.status = 200
                /\ teams' = Append(teams, [name |-> last'.req.name, captain_id |-> c])
           ELSE last'.status = 400 /\ teams' = teams]_vars

\* a team was refused because captain_id names a player
C5_Witness ==
    /\ last.op = "create_team" /\ last.status = 400
    /\ AnsweredFor(last, {"scorer"})
    /\ last.req.captain_id \in Ids(users)
    /\ users[last.req.captain_id].role = "player"

\* C6: a scorer's create-series request succeeds exactly when
\* 0 <= end_date - start_date <= 92 days and otherwise fails with 400, adding
\* no series; every stored series has end_date >= start_date and a span of
\* at most 92 days.
C6_SeriesSpan ==
    [][/\ (last'.op = "create_series" /\ AnsweredFor(last', {"scorer"}))
            => LET span == last'.req.end_date - last'.req.start_date IN
               IF 0 <= span /\ span <= 92
               THEN last'.status = 200 /\ OneRowAdded(series, series')
               ELSE last'.status = 400 /\ series' = series
       /\ \A i \in DOMAIN series' :
             /\ series'[i].end_date >= series'[i].start_date
             /\ series'[i].end_date - series'[i].start_date <= 92]_vars

\* a series of exactly 92 days was stored after one of 93 days was refused
C6_Witness ==
    /\ last.op = "create_series" /\ last.status = 400
    /\ last.req.end_date - last.req.start_date = 93
    /\ \E i \in Ids(series) : series[i].end_date - series[i].start_date = 92

\* the performance rows of the round a man-of-match request asked for
AskedRows == {i \in Ids(player_performance) :
                 player_performance[i].round_id = last.req.round_id}

\* row i has a lexicographically maximal (flag, points) key among AskedRows
MaximalKey(i) ==
    \A j \in AskedRows :
        LET a == player_performance[i]
            b == player_performance[j]
        IN \/ a.is_man_of_match > b.is_man_of_match
           \/ a.is_man_of_match = b.is_man_of_match
                /\ a.performance_points >= b.performance_points

\* C7: man-of-match fails with 404 exactly when the round has no performance
\* row, and otherwise returns the player_id of a row of the round whose
\* (is_man_of_match, performance_points) key is maximal.
C7_ManOfMatch ==
    (last.op = "man_of_match" /\ last.req.x_user_id \in Ids(users))
        => IF AskedRows = {} THEN last.status = 404
           ELSE /\ last.status = 200
                /\ \E i \in AskedRows :
                      MaximalKey(i) /\ last.body.player_id = player_performance[i].player_id

\* team-point row i belongs to team t and to an existing round of series sid
CountsFor(i, t, sid) ==
    /\ team_points[i].team_id = t
    /\ \E r \in Ids(rounds) : r = team_points[i].round_id /\ rounds[r].series_id = sid

\* the points of the first n team-point rows that count for team t in series sid
RECURSIVE PointsUpTo(_, _, _)
PointsUpTo(n, t, sid) ==
    IF n = 0 THEN 0
    ELSE PointsUpTo(n - 1, t, sid) + (IF CountsFor(n, t, sid) THEN team_points[n].points ELSE 0)

\* C8: for an existing series, standings' team_table has one entry per team
\* with at least one team-point row in a round of the series, each entry's
\* points the sum of all those rows, entries in non-increasing order of
\* points; winner_team is the first entry, or null when the table is empty;
\* for a series id that does not exist the request fails with 404.
C8_Standings ==
    (last.op = "series_results" /\ last.req.x_user_id \in Ids(users))
        => LET sid == last.req.series_id IN
           IF sid \notin Ids(series) THEN last.status = 404
           ELSE /\ last.status = 200
                /\ LET tbl == last.body.team_table
                       scoring == {t \in Ids(teams) :
                                      \E i \in Ids(team_points) : CountsFor(i, t, sid)}
                   IN /\ Len(tbl) = Cardinality(scoring)
                      /\ {tbl[k].team_id : k \in DOMAIN tbl} = scoring
                      /\ \A k \in DOMAIN tbl :
                            tbl[k].points = PointsUpTo(Len(team_points), tbl[k].team_id, sid)
                      /\ \A j, k \in DOMAIN tbl : j < k => tbl[j].points >= tbl[k].points
                      /\ last.body.winner_team = IF Len(tbl) = 0 THEN None ELSE tbl[1]
                      /\ (\A i \in Ids(team_points) : team_points[i].round_id \notin
                              {r \in Ids(rounds) : rounds[r].series_id = sid})
                            => (tbl = <<>> /\ last.body.winner_team = None)

\* series 1 stands at Y 20 (two rows of 10 added up) ahead of X 5
C8_Witness ==
    /\ last.op = "series_results" /\ last.status = 200 /\ last.req.series_id = 1
    /\ Len(last.body.team_table) = 2
    /\ last.body.winner_team = [team_id |-> 2, team_name |-> "Y", points |-> 20]
    /\ last.body.team_table[2] = [team_id |-> 1, team_name |-> "X", points |-> 5]
    /\ Len(team_points) = 3

\* C9: fact rows are accepted without any existence check, and the reads
\* ignore orphaned rows: a read by an existing user ends 200 or 404, never
\* another failure, the row man-of-match selects names an existing round and
\* an existing player, and standings lists existing teams only.
C9_OrphansIgnored ==
    /\ (last.op \in {"update_team_points", "update_player_performance"}
            /\ AnsweredFor(last, {"scorer"})) => last.status = 200
    /\ (last.op \in ReadOps /\ last.req.x_user_id \in Ids(users))
          => last.status \in {200, 404}
    /\ (last.op = "man_of_match" /\ last.status = 200)
          => last.req.round_id \in Ids(rounds) /\ last.body.player_id \in Ids(users)
    /\ (last.op = "series_results" /\ last.status = 200)
          => \A k \in DOMAIN last.body.team_table :
                last.body.team_table[k].team_id \in Ids(teams)

RefIntegrity ==
    /\ \A i \in Ids(teams) :
          /\ teams[i].captain_id \in Ids(users)
          /\ users[teams[i].captain_id].role = "captain"
    /\ \A i \in Ids(members) :
          /\ members[i].user_id \in Ids(users)
          /\ users[members[i].user_id].role \in {"captain", "player"}
          /\ members[i].team_id \in Ids(teams)
    /\ \A i \in Ids(rounds) : rounds[i].series_id \in Ids(series)

\* table `after` keeps every row of table `before` as it was
RowsKept(before, after) ==
    Len(after) >= Len(before) /\ SubSeq(after, 1, Len(before)) = before

\* C10: in every reachable state every team's captain_id names an existing
\* captain, every member's user_id names an existing captain or player and
\* its team_id an existing team, every round's series_id names an existing
\* series; rows are only added, never changed or removed, so a user's role
\* never changes.
C10_References ==
    /\ RefIntegrity
    /\ [][/\ RefIntegrity'
          /\ RowsKept(users, users') /\ RowsKept(series, series')
          /\ RowsKept(teams, teams') /\ RowsKept(members, members')
          /\ RowsKept(rounds, rounds') /\ RowsKept(team_points, team_points')
          /\ RowsKept(player_performance, player_performance')]_vars

\* a member row exists: a captain, the captain's team, the membership
C10_Witness ==
    /\ last.op = "add_member" /\ last.status = 200
    /\ Len(members) = 1 /\ Len(teams) = 1
    /\ users[members[1].user_id].role = "captain"

=============================================================================
